---- MODULE Spec2Model ----
(***************************************************************************)
(* Model of the DR16 receiver module (src/DR16.hpp): the packed wire frame *)
(* Data, the validator DataCorrupted, the acquisition loop Thread_Dr16 and  *)
(* the key/modifier code arithmetic.                                        *)
(***************************************************************************)
EXTENDS Integers, Naturals, Sequences, FiniteSets, TLC

VARIABLES
    pc,             \* position of the worker inside Thread_Dr16 (or of a direct caller)
    data_,          \* DR16::data_, the frame instance
    data_view_,     \* DR16::data_view_ (debug builds only)
    debug_build,    \* whether LIBXR_DEBUG_BUILD is defined for this build
    rx_block,       \* the 18-byte block the transport delivered to the pending read
    req_size,       \* byte count requested by the last uart_->Read
    sleep_ticks,    \* argument of the last LibXR::Thread::Sleep
    pub_arg,        \* argument of the last cmd_tp_.Publish
    cyc_log,        \* calls made by the worker since the last read was issued
    nreads,         \* reads issued so far
    nresets,        \* read_port_->Reset() calls so far
    nrejects,       \* times DataCorrupted() returned true in the loop
    npubs,          \* Publish calls so far
    verdict,        \* last value returned by DataCorrupted()
    key_in,         \* argument handed to ShiftWith / CtrlWith / ShiftCtrlWith
    shift_code,     \* last result of ShiftWith
    ctrl_code,      \* last result of CtrlWith
    shiftctrl_code, \* last result of ShiftCtrlWith
    src_frame,      \* field values stored into a Data object
    wire,           \* memory image (bytes) of that Data object
    validated,      \* the frame DataCorrupted() examined in the current cycle
    suspended,      \* whether the worker thread is suspended inside a call
    ctor_pc,        \* position of the constructing thread inside DR16::DR16
    uart_config,    \* configuration handed to uart_->SetConfig
    topic,          \* name of the topic held by cmd_tp_
    thread,         \* the thread created by thread_uart_.Create
    registered,     \* whether app.Register(*this) was called
    nmonitor,       \* OnMonitor calls so far
    ext_verdict     \* result of DataCorrupted() called from another thread

vars == <<pc, data_, data_view_, debug_build, rx_block, req_size, sleep_ticks,
          pub_arg, cyc_log, nreads, nresets, nrejects, npubs, verdict,
          key_in, shift_code, ctrl_code, shiftctrl_code, src_frame, wire,
          validated, suspended, ctor_pc, uart_config, topic, thread,
          registered, nmonitor, ext_verdict>>

restVars == <<data_view_, debug_build, rx_block, req_size, sleep_ticks,
              pub_arg, cyc_log, nreads, nresets, nrejects, npubs>>
loopVars == <<pc, restVars>>
keyVars == <<key_in, shift_code, ctrl_code, shiftctrl_code>>
codecVars == <<src_frame, wire>>
ctorVars == <<ctor_pc, uart_config, topic, thread, registered>>
envVars == <<ctorVars, nmonitor, ext_verdict>>
sysVars == <<envVars, validated, suspended>>

(***************************************************************************)
(* Bounds of the model.                                                    *)
(***************************************************************************)
MaxReads == 4
MaxMonitor == 1

\* optional values: None, or Some(v)
None == << >>
Some(v) == <<v>>
Get(o) == o[1]

NoKey == "none"

(***************************************************************************)
(* Program constants.                                                      *)
(***************************************************************************)
DR16_CH_VALUE_MIN == 364
DR16_CH_VALUE_MID == 1024
DR16_CH_VALUE_MAX == 1684

DR16_SW_POS_NUM == 6

SLEEP_TICKS == 3

Pow2(n) == 2 ^ n

(***************************************************************************)
(* enum class Key : uint8_t.  KEY_W takes the value of DR16_SW_POS_NUM and *)
(* the following enumerators count up from it.                             *)
(***************************************************************************)
KeyNames == <<"KEY_W", "KEY_S", "KEY_A", "KEY_D", "KEY_SHIFT", "KEY_CTRL",
              "KEY_Q", "KEY_E", "KEY_R", "KEY_F", "KEY_G", "KEY_Z", "KEY_X",
              "KEY_C", "KEY_V", "KEY_B", "KEY_L_PRESS", "KEY_R_PRESS",
              "KEY_L_RELEASE", "KEY_R_RELEASE", "KEY_NUM">>

KeyIndex(name) == CHOOSE i \in 1..Len(KeyNames) : KeyNames[i] = name

\* static_cast<uint8_t>(key)
KeyCode(name) == (DR16_SW_POS_NUM + (KeyIndex(name) - 1)) % 256

\* conversion of an int result to the uint32_t return type; the operands are
\* uint8_t promoted to int, so the sum is at most 255 + 3 * 255
ToUint32(n) == IF n >= 0 THEN n ELSE n + Pow2(16) * Pow2(16)

\* KEY_NUM taken as the number of keys instead of the enumerator's value
KEY_NUM_CountOnly == KeyCode("KEY_NUM") - DR16_SW_POS_NUM

KEY_NUM == KeyCode("KEY_NUM")

Key == {KeyNames[i] : i \in 1..Len(KeyNames)}

ShiftWith(key) == ToUint32(KeyCode(key) + 1 * KEY_NUM)

CtrlWith(key) == ToUint32(KeyCode(key) + 2 * KEY_NUM)

\* ShiftCtrlWith with the factor of CtrlWith
ShiftCtrlWith_CopyPaste(key) == ToUint32(KeyCode(key) + 2 * KEY_NUM)

ShiftCtrlWith(key) == ToUint32(KeyCode(key) + 3 * KEY_NUM)

(***************************************************************************)
(* struct __attribute__((packed)) Data: the fields in declaration order,   *)
(* their widths in bits and whether they are signed.  Being packed, every  *)
(* field starts at the bit after the previous one; bits are numbered from  *)
(* the least significant bit of byte 0 (little-endian target).             *)
(***************************************************************************)
FieldOrder == <<"ch_r_x", "ch_r_y", "ch_l_x", "ch_l_y", "sw_r", "sw_l",
                "x", "y", "z", "press_l", "press_r", "key", "res">>

\* the switch fields declared three bits wide
FieldWidth_WideSw ==
    [ch_r_x |-> 11, ch_r_y |-> 11, ch_l_x |-> 11, ch_l_y |-> 11,
     sw_r |-> 3, sw_l |-> 3,
     x |-> 16, y |-> 16, z |-> 16,
     press_l |-> 8, press_r |-> 8,
     key |-> 16, res |-> 16]

FieldWidth == [ch_r_x |-> 11, ch_r_y |-> 11, ch_l_x |-> 11, ch_l_y |-> 11,
               sw_r |-> 2, sw_l |-> 2,
               x |-> 16, y |-> 16, z |-> 16,
               press_l |-> 8, press_r |-> 8,
               key |-> 16, res |-> 16]

FieldSigned == [ch_r_x |-> FALSE, ch_r_y |-> FALSE, ch_l_x |-> FALSE,
                ch_l_y |-> FALSE, sw_r |-> FALSE, sw_l |-> FALSE,
                x |-> TRUE, y |-> TRUE, z |-> TRUE,
                press_l |-> FALSE, press_r |-> FALSE,
                key |-> FALSE, res |-> FALSE]

FieldNames == {FieldOrder[i] : i \in 1..Len(FieldOrder)}

RECURSIVE BitsBefore(_)
BitsBefore(i) == IF i <= 1 THEN 0
                 ELSE BitsBefore(i - 1) + FieldWidth[FieldOrder[i - 1]]

\* bit position at which each field starts
FieldOffsets == [i \in 1..Len(FieldOrder) |-> BitsBefore(i)]

FieldOffset(i) == FieldOffsets[i]

TotalBits == BitsBefore(Len(FieldOrder) + 1)

\* sizeof(Data)
SizeofData == (TotalBits + 7) \div 8

\* the bit pattern stored for value v in a field of width w (two's complement)
RawBits(v, w) == (v + Pow2(w)) % Pow2(w)

\* every field read back as unsigned
FromRaw_Unsigned(f, r) == r

\* the value a field of name f reads back from the stored bit pattern r
FromRaw(f, r) ==
    IF FieldSigned[f] /\ r >= Pow2(FieldWidth[f] - 1)
    THEN r - Pow2(FieldWidth[f])
    ELSE r

\* index of the field that owns each bit position
FieldOwner == [p \in 0..(TotalBits - 1) |->
                 CHOOSE i \in 1..Len(FieldOrder) :
                     /\ FieldOffset(i) <= p
                     /\ p < FieldOffset(i) + FieldWidth[FieldOrder[i]]]

FieldAt(p) == FieldOwner[p]

FieldIndex == [f \in FieldNames |->
                 CHOOSE j \in 1..Len(FieldOrder) : FieldOrder[j] = f]

\* the bit of the memory image at position p, for a Data holding frame d
BitAt(d, p) ==
    LET i == FieldAt(p)
        f == FieldOrder[i]
    IN (RawBits(d[f], FieldWidth[f]) \div Pow2(p - FieldOffset(i))) % 2

RECURSIVE ByteFrom(_, _, _)
ByteFrom(d, b, k) == IF k > 7 THEN 0
                     ELSE (BitAt(d, (8 * b) + k) * Pow2(k)) + ByteFrom(d, b, k + 1)

\* the memory image of a Data object whose fields hold d: SizeofData bytes
Pack(d) == [b \in 1..SizeofData |-> ByteFrom(d, b - 1, 0)]

\* bit p of a memory image
BlockBit(blk, p) == (blk[(p \div 8) + 1] \div Pow2(p % 8)) % 2

RECURSIVE RawField(_, _, _, _)
RawField(blk, off, w, k) ==
    IF k >= w THEN 0
    ELSE (BlockBit(blk, off + k) * Pow2(k)) + RawField(blk, off, w, k + 1)

\* the fields a Data object reads from the memory image blk
Unpack(blk) ==
    [f \in FieldNames |->
        LET i == FieldIndex[f]
        IN FromRaw(f, RawField(blk, FieldOffset(i), FieldWidth[f], 0))]

\* DataCorrupted without the final check of sw_r
DataCorrupted_NoSwR(d) ==
    \/ (d.ch_r_x < DR16_CH_VALUE_MIN) \/ (d.ch_r_x > DR16_CH_VALUE_MAX)
    \/ (d.ch_r_y < DR16_CH_VALUE_MIN) \/ (d.ch_r_y > DR16_CH_VALUE_MAX)
    \/ (d.ch_l_x < DR16_CH_VALUE_MIN) \/ (d.ch_l_x > DR16_CH_VALUE_MAX)
    \/ (d.ch_l_y < DR16_CH_VALUE_MIN) \/ (d.ch_l_y > DR16_CH_VALUE_MAX)
    \/ d.sw_l = 0

\* DataCorrupted with the upper limit of ch_l_y compared with >=
DataCorrupted_OffByOne(d) ==
    \/ (d.ch_r_x < DR16_CH_VALUE_MIN) \/ (d.ch_r_x > DR16_CH_VALUE_MAX)
    \/ (d.ch_r_y < DR16_CH_VALUE_MIN) \/ (d.ch_r_y > DR16_CH_VALUE_MAX)
    \/ (d.ch_l_x < DR16_CH_VALUE_MIN) \/ (d.ch_l_x > DR16_CH_VALUE_MAX)
    \/ (d.ch_l_y < DR16_CH_VALUE_MIN) \/ (d.ch_l_y >= DR16_CH_VALUE_MAX)
    \/ d.sw_l = 0
    \/ d.sw_r = 0

(***************************************************************************)
(* bool DataCorrupted(): the six checks in the order of the code, each     *)
(* returning true at the first failure.                                    *)
(***************************************************************************)
DataCorrupted(d) ==
    IF (d.ch_r_x < DR16_CH_VALUE_MIN) \/ (d.ch_r_x > DR16_CH_VALUE_MAX)
    THEN TRUE
    ELSE IF (d.ch_r_y < DR16_CH_VALUE_MIN) \/ (d.ch_r_y > DR16_CH_VALUE_MAX)
    THEN TRUE
    ELSE IF (d.ch_l_x < DR16_CH_VALUE_MIN) \/ (d.ch_l_x > DR16_CH_VALUE_MAX)
    THEN TRUE
    ELSE IF (d.ch_l_y < DR16_CH_VALUE_MIN) \/ (d.ch_l_y > DR16_CH_VALUE_MAX)
    THEN TRUE
    ELSE IF d.sw_l = 0
    THEN TRUE
    ELSE IF d.sw_r = 0
    THEN TRUE
    ELSE FALSE

\* void DataviewToData(DataView &data_view, Data &data): field-by-field copy
DataviewToData(d) == [f \in FieldNames |-> d[f]]

(***************************************************************************)
(* Frames used as inputs.                                                  *)
(***************************************************************************)
MkFrame(c, s, o) ==
    [ch_r_x |-> c[1], ch_r_y |-> c[2], ch_l_x |-> c[3], ch_l_y |-> c[4],
     sw_r |-> s[1], sw_l |-> s[2],
     x |-> o[1], y |-> o[2], z |-> o[3],
     press_l |-> o[4], press_r |-> o[5], key |-> o[6], res |-> o[7]]

Mid4 == <<DR16_CH_VALUE_MID, DR16_CH_VALUE_MID, DR16_CH_VALUE_MID,
          DR16_CH_VALUE_MID>>
OtherZero == <<0, 0, 0, 0, 0, 0, 0>>
OtherBusy == <<-32768, 32767, -1, 255, 1, 65535, 43690>>
OtherSets == {OtherZero, OtherBusy, <<-1, 1, 120, 1, 0, 1, 65535>>}

\* frames the transport delivers to the loop, and the contents an
\* uninitialised data_ may hold
LoopFrames ==
    { MkFrame(Mid4, <<1, 1>>, OtherZero),
      MkFrame(<<364, 1684, 364, 1684>>, <<3, 2>>, OtherBusy),
      MkFrame(<<300, 1024, 1024, 1024>>, <<1, 1>>, OtherZero),
      MkFrame(<<1024, 1685, 1024, 1024>>, <<2, 3>>, OtherBusy),
      MkFrame(<<1024, 1024, 1024, 363>>, <<1, 1>>, OtherZero),
      MkFrame(Mid4, <<0, 1>>, OtherZero),
      MkFrame(Mid4, <<1, 0>>, OtherBusy),
      MkFrame(<<0, 0, 0, 0>>, <<0, 0>>, OtherZero) }

LoopBlocks == {Pack(f) : f \in LoopFrames}

\* frames handed to the validator: every channel at, next to and far from
\* both limits, every switch value, three settings of the unchecked fields
ChannelValues == {0, DR16_CH_VALUE_MIN - 1, DR16_CH_VALUE_MIN,
                  DR16_CH_VALUE_MID, DR16_CH_VALUE_MAX,
                  DR16_CH_VALUE_MAX + 1, 2047}
SwitchValues == 0..3

ValidatorFrames ==
    { MkFrame(<<a, b, c, d>>, <<r, l>>, o) :
        a \in ChannelValues, b \in ChannelValues, c \in ChannelValues,
        d \in ChannelValues, r \in SwitchValues, l \in SwitchValues,
        o \in OtherSets }

\* frames stored and read back: every field at its all-zeros and all-ones
\* bit pattern in every combination, and alternating bit patterns
CodecFrames ==
    { MkFrame(<<a, b, c, d>>, <<r, l>>, <<x, y, z, pl, pr, k, e>>) :
        a \in {0, 2047}, b \in {0, 2047}, c \in {0, 2047}, d \in {0, 2047},
        r \in {0, 3}, l \in {0, 3},
        x \in {0, -1}, y \in {0, -1}, z \in {0, -1},
        pl \in {0, 255}, pr \in {0, 255}, k \in {0, 65535}, e \in {0, 65535} }
    \cup
    { MkFrame(<<a, b, c, d>>, <<r, l>>, <<x, y, z, pl, pr, k, e>>) :
        a \in {1365, 682}, b \in {1024, 1023}, c \in {1, 1684}, d \in {364, 1365},
        r \in {1, 2}, l \in {2, 1},
        x \in {-32768, 32767}, y \in {21845, -21846}, z \in {1, -2},
        pl \in {1, 170}, pr \in {85, 128}, k \in {43690, 21845},
        e \in {1, 32768} }

(***************************************************************************)
(* The acquisition loop, static void Thread_Dr16(DR16 *dr16).              *)
(***************************************************************************)
Log(e) == cyc_log' = Append(cyc_log, e)

\* the loop entered without the initial Reset()
Startup_NoReset ==
    /\ thread # None
    /\ pc = "start"
    /\ pc' = "read"
    /\ UNCHANGED <<data_, data_view_, debug_build, rx_block, req_size,
                   sleep_ticks, pub_arg, cyc_log, nreads, nresets, nrejects,
                   npubs, verdict>>
    /\ UNCHANGED <<keyVars, codecVars, envVars, validated, suspended>>

\* the created thread enters Thread_Dr16:
\* dr16->uart_->read_port_->Reset() before the loop
Startup ==
    /\ thread # None
    /\ pc = "start"
    /\ nresets' = nresets + 1
    /\ Log("reset")
    /\ pc' = "read"
    /\ UNCHANGED <<data_, data_view_, debug_build, rx_block, req_size,
                   sleep_ticks, pub_arg, nreads, nrejects, npubs, verdict>>
    /\ UNCHANGED <<keyVars, codecVars, envVars, validated, suspended>>

\* dr16->uart_->Read(dr16->data_, dr16->op) is called: one block of
\* sizeof(Data) bytes is requested and the worker waits on the semaphore
ReadIssue ==
    /\ pc = "read"
    /\ nreads < MaxReads
    /\ nreads' = nreads + 1
    /\ req_size' = SizeofData
    /\ rx_block' = None
    /\ cyc_log' = <<"read">>
    /\ pc' = "wait"
    /\ UNCHANGED <<data_, data_view_, debug_build, sleep_ticks, pub_arg,
                   nresets, nrejects, npubs, verdict>>
    /\ validated' = None
    /\ suspended' = TRUE
    /\ UNCHANGED <<keyVars, codecVars, envVars>>

\* the transport completes the read: the block is copied over data_
ReadDeliver(blk) ==
    /\ pc = "wait"
    /\ rx_block' = Some(blk)
    /\ data_' = Unpack(blk)
    /\ Log("deliver")
    /\ pc' = "check"
    /\ UNCHANGED <<data_view_, debug_build, req_size, sleep_ticks, pub_arg,
                   nreads, nresets, nrejects, npubs, verdict>>
    /\ suspended' = FALSE
    /\ UNCHANGED <<keyVars, codecVars, envVars, validated>>

\* Read returns without a block (its result is discarded): data_ keeps
\* what it held
ReadUnfilled ==
    /\ pc = "wait"
    /\ Log("unfilled")
    /\ pc' = "check"
    /\ UNCHANGED <<data_, data_view_, debug_build, rx_block, req_size,
                   sleep_ticks, pub_arg, nreads, nresets, nrejects, npubs,
                   verdict>>
    /\ suspended' = FALSE
    /\ UNCHANGED <<keyVars, codecVars, envVars, validated>>

\* a verdict that stays "corrupted" once a frame was rejected
Validate_Sticky ==
    /\ pc = "check"
    /\ LET bad == DataCorrupted(data_) \/ verdict = Some(TRUE)
       IN /\ verdict' = Some(bad)
          /\ IF bad
             THEN /\ nrejects' = nrejects + 1
                  /\ pc' = "reset"
             ELSE /\ nrejects' = nrejects
                  /\ pc' = "publish"
    /\ UNCHANGED <<data_, data_view_, debug_build, rx_block, req_size,
                   sleep_ticks, pub_arg, cyc_log, nreads, nresets, npubs>>
    /\ validated' = Some(data_)
    /\ UNCHANGED <<keyVars, codecVars, envVars, suspended>>

\* if (dr16->DataCorrupted()) ... else ...
Validate ==
    /\ pc = "check"
    /\ verdict' = Some(DataCorrupted(data_))
    /\ IF DataCorrupted(data_)
       THEN /\ nrejects' = nrejects + 1
            /\ pc' = "reset"
       ELSE /\ nrejects' = nrejects
            /\ pc' = "publish"
    /\ UNCHANGED <<data_, data_view_, debug_build, rx_block, req_size,
                   sleep_ticks, pub_arg, cyc_log, nreads, nresets, npubs>>
    /\ validated' = Some(data_)
    /\ UNCHANGED <<keyVars, codecVars, envVars, suspended>>

\* the corrupted branch without its Reset()
RecoverReset_Skipped ==
    /\ pc = "reset"
    /\ pc' = "sleep"
    /\ UNCHANGED <<data_, data_view_, debug_build, rx_block, req_size,
                   sleep_ticks, pub_arg, cyc_log, nreads, nresets, nrejects,
                   npubs, verdict>>
    /\ UNCHANGED <<keyVars, codecVars, envVars, validated, suspended>>

\* dr16->uart_->read_port_->Reset() on the corrupted branch
RecoverReset ==
    /\ pc = "reset"
    /\ nresets' = nresets + 1
    /\ Log("reset")
    /\ pc' = "sleep"
    /\ UNCHANGED <<data_, data_view_, debug_build, rx_block, req_size,
                   sleep_ticks, pub_arg, nreads, nrejects, npubs, verdict>>
    /\ UNCHANGED <<keyVars, codecVars, envVars, validated, suspended>>

\* LibXR::Thread::Sleep(3) is entered
RecoverSleep ==
    /\ pc = "sleep"
    /\ sleep_ticks' = SLEEP_TICKS
    /\ Log("sleep")
    /\ pc' = "sleeping"
    /\ UNCHANGED <<data_, data_view_, debug_build, rx_block, req_size,
                   pub_arg, nreads, nresets, nrejects, npubs, verdict>>
    /\ suspended' = TRUE
    /\ UNCHANGED <<keyVars, codecVars, envVars, validated>>

\* the loop left after the pause
SleepReturn_Exit ==
    /\ pc = "sleeping"
    /\ pc' = "exit"
    /\ UNCHANGED <<data_, data_view_, debug_build, rx_block, req_size,
                   sleep_ticks, pub_arg, cyc_log, nreads, nresets, nrejects,
                   npubs, verdict>>
    /\ suspended' = FALSE
    /\ UNCHANGED <<keyVars, codecVars, envVars, validated>>

\* Sleep returns and the loop starts over
SleepReturn ==
    /\ pc = "sleeping"
    /\ pc' = "read"
    /\ UNCHANGED <<data_, data_view_, debug_build, rx_block, req_size,
                   sleep_ticks, pub_arg, cyc_log, nreads, nresets, nrejects,
                   npubs, verdict>>
    /\ suspended' = FALSE
    /\ UNCHANGED <<keyVars, codecVars, envVars, validated>>

\* the frame published twice
Publish_Twice ==
    /\ pc = "publish"
    /\ data_view_' = IF debug_build THEN Some(DataviewToData(data_))
                                     ELSE data_view_
    /\ pub_arg' = Some(data_)
    /\ npubs' = npubs + 2
    /\ cyc_log' = cyc_log \o <<"publish", "publish">>
    /\ pc' = "read"
    /\ UNCHANGED <<data_, debug_build, rx_block, req_size, sleep_ticks,
                   nreads, nresets, nrejects, verdict>>
    /\ UNCHANGED <<keyVars, codecVars, envVars, validated, suspended>>

\* DataviewToData copying the view into data_, as its name reads
Publish_ViewToData ==
    /\ pc = "publish"
    /\ data_' = IF debug_build THEN Get(data_view_) ELSE data_
    /\ pub_arg' = Some(data_')
    /\ npubs' = npubs + 1
    /\ Log("publish")
    /\ pc' = "read"
    /\ UNCHANGED <<data_view_, debug_build, rx_block, req_size, sleep_ticks,
                   nreads, nresets, nrejects, verdict>>
    /\ UNCHANGED <<keyVars, codecVars, envVars, validated, suspended>>

\* Publish leaving the worker suspended on the topic
Publish_Blocking ==
    /\ pc = "publish"
    /\ data_view_' = IF debug_build THEN Some(DataviewToData(data_))
                                     ELSE data_view_
    /\ pub_arg' = Some(data_)
    /\ npubs' = npubs + 1
    /\ Log("publish")
    /\ pc' = "read"
    /\ suspended' = TRUE
    /\ UNCHANGED <<data_, debug_build, rx_block, req_size, sleep_ticks,
                   nreads, nresets, nrejects, verdict>>
    /\ UNCHANGED <<keyVars, codecVars, envVars, validated>>

\* the else branch: DataviewToData in debug builds, then
\* dr16->cmd_tp_.Publish(dr16->data_)
Publish ==
    /\ pc = "publish"
    /\ data_view_' = IF debug_build THEN Some(DataviewToData(data_))
                                     ELSE data_view_
    /\ pub_arg' = Some(data_)
    /\ npubs' = npubs + 1
    /\ Log("publish")
    /\ pc' = "read"
    /\ UNCHANGED <<data_, debug_build, rx_block, req_size, sleep_ticks,
                   nreads, nresets, nrejects, verdict>>
    /\ UNCHANGED <<keyVars, codecVars, envVars, validated, suspended>>

(***************************************************************************)
(* The constructor DR16::DR16, statement by statement, and the calls other *)
(* threads make on the object.                                             *)
(***************************************************************************)
UartConfig == <<100000, "EVEN", 8, 1>>
TopicName == "dr16_cmd"
ThreadSpec == [name |-> "uart_dr16", priority |-> "HIGH"]

\* uart_->SetConfig({100000, LibXR::UART::Parity::EVEN, 8, 1})
CtorSetConfig ==
    /\ ctor_pc = "config"
    /\ uart_config' = Some(UartConfig)
    /\ ctor_pc' = "topic"
    /\ UNCHANGED <<data_, verdict, loopVars, keyVars, codecVars, topic,
                   thread, registered, nmonitor, ext_verdict, validated,
                   suspended>>

\* cmd_tp_ = LibXR::Topic::CreateTopic<Data>("dr16_cmd", nullptr, true)
CtorCreateTopic ==
    /\ ctor_pc = "topic"
    /\ topic' = Some(TopicName)
    /\ ctor_pc' = "thread"
    /\ UNCHANGED <<data_, verdict, loopVars, keyVars, codecVars, uart_config,
                   thread, registered, nmonitor, ext_verdict, validated,
                   suspended>>

\* the thread created as the first statement of the constructor
CtorCreateThread_Early ==
    /\ \/ /\ ctor_pc = "config"
          /\ thread = None
          /\ ctor_pc' = ctor_pc
       \/ /\ ctor_pc = "thread"
          /\ ctor_pc' = "register"
    /\ thread' = Some(ThreadSpec)
    /\ UNCHANGED <<data_, verdict, loopVars, keyVars, codecVars, uart_config,
                   topic, registered, nmonitor, ext_verdict, validated,
                   suspended>>

\* thread_uart_.Create(this, Thread_Dr16, "uart_dr16", ..., Priority::HIGH)
CtorCreateThread ==
    /\ ctor_pc = "thread"
    /\ thread' = Some(ThreadSpec)
    /\ ctor_pc' = "register"
    /\ UNCHANGED <<data_, verdict, loopVars, keyVars, codecVars, uart_config,
                   topic, registered, nmonitor, ext_verdict, validated,
                   suspended>>

\* app.Register(*this); the constructor returns
CtorRegister ==
    /\ ctor_pc = "register"
    /\ registered' = TRUE
    /\ ctor_pc' = "done"
    /\ UNCHANGED <<data_, verdict, loopVars, keyVars, codecVars, uart_config,
                   topic, thread, nmonitor, ext_verdict, validated,
                   suspended>>

Constructor ==
    \/ CtorSetConfig
    \/ CtorCreateTopic
    \/ CtorCreateThread
    \/ CtorRegister

\* a monitor hook that resets the receive buffer
OnMonitor_Resets ==
    /\ registered
    /\ nmonitor < MaxMonitor
    /\ nmonitor' = nmonitor + 1
    /\ nresets' = nresets + 1
    /\ UNCHANGED <<data_, verdict, pc, data_view_, debug_build, rx_block,
                   req_size, sleep_ticks, pub_arg, cyc_log, nreads, nrejects,
                   npubs, keyVars, codecVars, ctorVars, ext_verdict,
                   validated, suspended>>

\* void OnMonitor() override {} called by the application manager
OnMonitor ==
    /\ registered
    /\ nmonitor < MaxMonitor
    /\ nmonitor' = nmonitor + 1
    /\ UNCHANGED <<data_, verdict, loopVars, keyVars, codecVars, ctorVars,
                   ext_verdict, validated, suspended>>

\* DataCorrupted() called on the constructed object by another thread; while
\* the worker's read is pending data_ is being written, and the fields the
\* caller reads are indeterminate
OtherThreadDataCorrupted ==
    /\ ctor_pc = "done"
    /\ ext_verdict' \in (IF pc = "wait"
                         THEN {Some(TRUE), Some(FALSE)}
                         ELSE {Some(DataCorrupted(data_))})
    /\ UNCHANGED <<data_, verdict, loopVars, keyVars, codecVars, ctorVars,
                   nmonitor, validated, suspended>>

\* state on entry of the constructor body: the members are initialised,
\* data_ (and data_view_) have no initialiser, nothing is configured yet
Init ==
    /\ pc = "start"
    /\ data_ \in LoopFrames
    /\ debug_build \in BOOLEAN
    /\ data_view_ \in (IF debug_build THEN {Some(f) : f \in LoopFrames}
                                       ELSE {None})
    /\ rx_block = None
    /\ req_size = 0
    /\ sleep_ticks = 0
    /\ pub_arg = None
    /\ cyc_log = << >>
    /\ nreads = 0
    /\ nresets = 0
    /\ nrejects = 0
    /\ npubs = 0
    /\ verdict = None
    /\ key_in = NoKey
    /\ shift_code = None
    /\ ctrl_code = None
    /\ shiftctrl_code = None
    /\ src_frame = None
    /\ wire = None
    /\ validated = None
    /\ suspended = FALSE
    /\ ctor_pc = "config"
    /\ uart_config = None
    /\ topic = None
    /\ thread = None
    /\ registered = FALSE
    /\ nmonitor = 0
    /\ ext_verdict = None

Worker ==
    \/ Startup
    \/ ReadIssue
    \/ Validate
    \/ RecoverReset
    \/ RecoverSleep
    \/ SleepReturn
    \/ Publish

Transport ==
    \/ \E blk \in LoopBlocks : ReadDeliver(blk)
    \/ ReadUnfilled

\* a step of the acquisition loop, by the worker or by its transport
LoopStep == Worker \/ Transport

Next ==
    \/ Constructor
    \/ Worker
    \/ Transport
    \/ OnMonitor
    \/ OtherThreadDataCorrupted

Spec == Init /\ [][Next]_vars

\* the object constructed and its loop running, the other threads making
\* no calls (their calls change nothing the loop reads)
LoopNext == Constructor \/ Worker \/ Transport

\* the constructor runs to its end, the worker thread is scheduled, every
\* read returns, every pause ends
LiveSpec ==
    /\ Init /\ [][LoopNext]_vars
    /\ WF_vars(Constructor) /\ WF_vars(Worker) /\ WF_vars(Transport)

(***************************************************************************)
(* Direct calls of the pure parts: the validator on a given frame, the     *)
(* combination-key functions on a given key, and storing fields into a     *)
(* Data object / reading them back from its memory image.                  *)
(***************************************************************************)
IdleLoop ==
    /\ pc = "idle"
    /\ debug_build = FALSE
    /\ data_view_ = None
    /\ rx_block = None
    /\ req_size = 0
    /\ sleep_ticks = 0
    /\ pub_arg = None
    /\ cyc_log = << >>
    /\ nreads = 0
    /\ nresets = 0
    /\ nrejects = 0
    /\ npubs = 0
    /\ validated = None
    /\ suspended = FALSE
    /\ ctor_pc = "done"
    /\ uart_config = Some(UartConfig)
    /\ topic = Some(TopicName)
    /\ thread = Some(ThreadSpec)
    /\ registered = TRUE
    /\ nmonitor = 0
    /\ ext_verdict = None

\* a validator that clamps ch_r_x into range while checking it
CallDataCorrupted_Clamping ==
    /\ pc = "idle"
    /\ verdict' = Some(DataCorrupted(data_))
    /\ data_' = [data_ EXCEPT !.ch_r_x =
                    IF @ < DR16_CH_VALUE_MIN THEN DR16_CH_VALUE_MIN
                    ELSE IF @ > DR16_CH_VALUE_MAX THEN DR16_CH_VALUE_MAX
                    ELSE @]
    /\ UNCHANGED <<loopVars, keyVars, codecVars, sysVars>>

\* bool DataCorrupted() called on the object
CallDataCorrupted ==
    /\ pc = "idle"
    /\ verdict' = Some(DataCorrupted(data_))
    /\ UNCHANGED <<data_, loopVars, keyVars, codecVars, sysVars>>

InitValidator ==
    /\ IdleLoop
    /\ data_ \in ValidatorFrames
    /\ verdict = None
    /\ key_in = NoKey /\ shift_code = None /\ ctrl_code = None
    /\ shiftctrl_code = None
    /\ src_frame = None /\ wire = None

SpecValidator == InitValidator /\ [][CallDataCorrupted]_vars

CallShiftWith ==
    /\ pc = "idle"
    /\ key_in # NoKey
    /\ shift_code' = Some(ShiftWith(key_in))
    /\ UNCHANGED <<data_, verdict, loopVars, codecVars, sysVars,
                   key_in, ctrl_code,
                   shiftctrl_code>>

CallCtrlWith ==
    /\ pc = "idle"
    /\ key_in # NoKey
    /\ ctrl_code' = Some(CtrlWith(key_in))
    /\ UNCHANGED <<data_, verdict, loopVars, codecVars, sysVars,
                   key_in, shift_code,
                   shiftctrl_code>>

CallShiftCtrlWith ==
    /\ pc = "idle"
    /\ key_in # NoKey
    /\ shiftctrl_code' = Some(ShiftCtrlWith(key_in))
    /\ UNCHANGED <<data_, verdict, loopVars, codecVars, sysVars,
                   key_in, shift_code,
                   ctrl_code>>

InitKeys ==
    /\ IdleLoop
    /\ data_ = MkFrame(Mid4, <<1, 1>>, OtherZero)
    /\ verdict = None
    /\ key_in \in Key
    /\ shift_code = None /\ ctrl_code = None /\ shiftctrl_code = None
    /\ src_frame = None /\ wire = None

NextKeys == CallShiftWith \/ CallCtrlWith \/ CallShiftCtrlWith

SpecKeys == InitKeys /\ [][NextKeys]_vars

\* the fields of a Data object are assigned: its bytes are the wire image
StoreFields ==
    /\ pc = "idle"
    /\ src_frame # None
    /\ wire' = Some(Pack(Get(src_frame)))
    /\ pc' = "stored"
    /\ UNCHANGED <<data_, verdict, restVars, keyVars, sysVars, src_frame>>

\* the bytes are copied over data_ and its fields are read
LoadFields ==
    /\ pc = "stored"
    /\ data_' = Unpack(Get(wire))
    /\ pc' = "loaded"
    /\ UNCHANGED <<verdict, restVars, keyVars, codecVars, sysVars>>

InitCodec ==
    /\ IdleLoop
    /\ data_ = MkFrame(Mid4, <<1, 1>>, OtherZero)
    /\ verdict = None
    /\ key_in = NoKey /\ shift_code = None /\ ctrl_code = None
    /\ shiftctrl_code = None
    /\ src_frame \in {Some(f) : f \in CodecFrames}
    /\ wire = None

NextCodec == StoreFields \/ LoadFields

SpecCodec == InitCodec /\ [][NextCodec]_vars

(***************************************************************************)
(* Properties.                                                             *)
(***************************************************************************)
\* the validity of a frame as the specification words it
ChannelOk(v) == v >= 364 /\ v <= 1684

FrameValid(d) ==
    /\ ChannelOk(d.ch_r_x) /\ ChannelOk(d.ch_r_y)
    /\ ChannelOk(d.ch_l_x) /\ ChannelOk(d.ch_l_y)
    /\ d.sw_l # 0 /\ d.sw_r # 0

\* the frame decoded from the block delivered in the current cycle
Delivered == Unpack(Get(rx_block))

\* C1: Publish is never invoked with a frame that fails validation: the
\* frame about to be published and every published frame has its four
\* channels in [364, 1684] and both switches non-zero.
C1_PublishOnlyValid ==
    /\ pc = "publish" => FrameValid(data_)
    /\ pub_arg # None => FrameValid(Get(pub_arg))

C1_Witness ==
    /\ npubs >= 1
    /\ nrejects >= 1
    /\ pub_arg # None
    /\ Get(pub_arg).ch_r_y = 1684

\* C2: a delivered block that decodes to a valid frame is published exactly
\* once, with that frame, after the read completed and before the next
\* read is issued (the next read is issued from pc = "read" only).
C2_PublishOncePerValid ==
    (rx_block # None /\ FrameValid(Delivered)) =>
        /\ pc \in {"check", "publish", "read"}
        /\ pc \in {"check", "publish"} => cyc_log = <<"read", "deliver">>
        /\ pc = "read" =>
              /\ cyc_log = <<"read", "deliver", "publish">>
              /\ pub_arg = Some(Delivered)

C2_Witness ==
    /\ pc = "read"
    /\ nreads >= 2
    /\ rx_block # None
    /\ FrameValid(Delivered)
    /\ cyc_log = <<"read", "deliver", "publish">>
    /\ pub_arg = Some(MkFrame(Mid4, <<1, 1>>, OtherZero))

\* C3: a delivered block that decodes to an invalid frame takes the
\* recovery path exactly once: one Reset(), then one Sleep(3), no Publish,
\* and only then the next read.
C3_RecoverOncePerInvalid ==
    (rx_block # None /\ ~FrameValid(Delivered)) =>
        /\ pc \in {"check", "reset", "sleep", "sleeping", "read"}
        /\ pc \in {"check", "reset"} => cyc_log = <<"read", "deliver">>
        /\ pc = "sleep" => cyc_log = <<"read", "deliver", "reset">>
        /\ pc \in {"sleeping", "read"} =>
              /\ cyc_log = <<"read", "deliver", "reset", "sleep">>
              /\ sleep_ticks = 3

C3_Witness ==
    /\ pc = "read"
    /\ rx_block # None
    /\ Delivered = MkFrame(<<300, 1024, 1024, 1024>>, <<1, 1>>, OtherZero)
    /\ cyc_log = <<"read", "deliver", "reset", "sleep">>
    /\ npubs = 0

\* C4: DataCorrupted returns true iff some channel is < 364 or > 1684 or
\* a switch is 0; the verdict reads none of x, y, z, press_l, press_r, key,
\* res.
C4_CorruptedIff ==
    verdict # None =>
        Get(verdict) =
            ( \/ data_.ch_r_x < 364 \/ data_.ch_r_x > 1684
              \/ data_.ch_r_y < 364 \/ data_.ch_r_y > 1684
              \/ data_.ch_l_x < 364 \/ data_.ch_l_x > 1684
              \/ data_.ch_l_y < 364 \/ data_.ch_l_y > 1684
              \/ data_.sw_l = 0
              \/ data_.sw_r = 0 )

C4_Witness ==
    /\ verdict = Some(FALSE)
    /\ data_.ch_r_x = 364 /\ data_.ch_r_y = 1684
    /\ data_.ch_l_x = 364 /\ data_.ch_l_y = 1684
    /\ data_.sw_l = 3 /\ data_.sw_r = 2
    /\ data_.key = 65535

\* C5: the loop has no terminal state and issues a further read after
\* every rejection: the count of reads grows up to the bound on reads, a
\* rejection below that bound is always followed by the next read being
\* issued, and the only state of a started loop without a successor is the
\* one the bound on reads cuts off.
C5_LoopNeverStops ==
    /\ <>(nreads = MaxReads)
    /\ []((pc = "reset" /\ nreads < MaxReads) => <>(pc = "wait"))
    /\ [](\/ ENABLED LoopStep
          \/ thread = None
          \/ (pc = "read" /\ nreads = MaxReads))

C5_Witness ==
    /\ pc = "wait"
    /\ nreads >= 3
    /\ nrejects = nreads - 1
    /\ npubs = 0

\* C6: the verdict of a cycle depends only on the block read in that
\* cycle, whatever was rejected before: a valid block delivered after any
\* number of rejections is accepted and published.
C6_SelfHealing ==
    (rx_block # None /\ pc \in {"publish", "reset", "sleep", "sleeping", "read"}) =>
        /\ verdict = Some(~FrameValid(Delivered))
        /\ (FrameValid(Delivered) /\ pc = "read") =>
              /\ pub_arg = Some(Delivered)
              /\ cyc_log[Len(cyc_log)] = "publish"

C6_Witness ==
    /\ pc = "read"
    /\ nrejects >= 2
    /\ npubs = 1
    /\ rx_block # None
    /\ FrameValid(Delivered)
    /\ pub_arg = Some(Delivered)

\* the base keys and events of the Key enumeration: the 16 keyboard keys and
\* the 4 pointer-button press/release events
BaseKeys == Key \ {"KEY_NUM"}

BaseKeyCount == Cardinality(BaseKeys)

\* C7 as stated: the Shift, Ctrl and Shift+Ctrl codes of a key are its own
\* code plus N, 2N and 3N with N the number of base keys/events (20).
C7_OffsetIsKeyCount ==
    /\ BaseKeyCount = 20
    /\ shift_code # None =>
          Get(shift_code) = KeyCode(key_in) + BaseKeyCount
    /\ ctrl_code # None =>
          Get(ctrl_code) = KeyCode(key_in) + 2 * BaseKeyCount
    /\ shiftctrl_code # None =>
          Get(shiftctrl_code) = KeyCode(key_in) + 3 * BaseKeyCount

\* C7 amended: the offsets are N, 2N and 3N with N = 26, the value of the
\* enumerator KEY_NUM: the 20 base keys/events plus the 6 switch-position
\* codes the key codes are numbered after.
C7_OffsetIsKeyNumValue ==
    /\ BaseKeyCount = 20
    /\ shift_code # None =>
          Get(shift_code) = KeyCode(key_in) + 26
    /\ ctrl_code # None =>
          Get(ctrl_code) = KeyCode(key_in) + 52
    /\ shiftctrl_code # None =>
          Get(shiftctrl_code) = KeyCode(key_in) + 78

C7_Witness ==
    /\ key_in = "KEY_W"
    /\ shift_code = Some(32)
    /\ ctrl_code = Some(58)
    /\ shiftctrl_code = Some(84)

\* C8: storing any representable field values into the packed layout and
\* reading the fields back from its bytes gives the same values field for
\* field; the image is 18 bytes, each in 0..255.
C8_RoundTrip ==
    /\ pc \in {"stored", "loaded"} =>
          /\ DOMAIN Get(wire) = 1..18
          /\ \A b \in 1..18 : Get(wire)[b] \in 0..255
    /\ pc = "loaded" =>
          \A f \in FieldNames : data_[f] = Get(src_frame)[f]

C8_Witness ==
    /\ pc = "loaded"
    /\ data_ = Get(src_frame)
    /\ data_.ch_l_y = 2047 /\ data_.sw_r = 0 /\ data_.sw_l = 3
    /\ data_.x = -1 /\ data_.y = 0 /\ data_.press_l = 255
    /\ data_.res = 65535

\* C9: the layout is 18 bytes without padding: the thirteen fields, in the
\* declared order and with the declared widths, start at consecutive bit
\* positions and cover 144 bits; every read requests one block of 18 bytes.
C9_LayoutAndReadSize ==
    /\ FieldOrder = <<"ch_r_x", "ch_r_y", "ch_l_x", "ch_l_y", "sw_r", "sw_l",
                      "x", "y", "z", "press_l", "press_r", "key", "res">>
    /\ [i \in 1..13 |-> FieldWidth[FieldOrder[i]]] =
          <<11, 11, 11, 11, 2, 2, 16, 16, 16, 8, 8, 16, 16>>
    /\ FieldOffsets = <<0, 11, 22, 33, 44, 46, 48, 64, 80, 96, 104, 112, 128>>
    /\ TotalBits = 144
    /\ SizeofData = 18
    /\ pc = "wait" => req_size = 18
    /\ nreads >= 1 => req_size = 18
    /\ rx_block # None => DOMAIN Get(rx_block) = 1..18

C9_Witness ==
    /\ pc = "wait"
    /\ nreads = 2
    /\ req_size = 18

\* C10: the receive buffer is reset once at startup before the first read;
\* afterwards only the recovery path resets it: a cycle that publishes does
\* neither reset nor pause, and the resets performed number 1 plus the
\* rejected frames (the reset of a frame just rejected being the worker's
\* next call while pc = "reset").
C10_ResetCount ==
    /\ pc = "start" => (nresets = 0 /\ nreads = 0)
    /\ (pc = "read" /\ nreads = 0) => (nresets = 1 /\ cyc_log = <<"reset">>)
    /\ nreads >= 1 => nresets >= 1
    /\ (nreads >= 1 /\ pc = "read" /\ cyc_log[Len(cyc_log)] = "publish") =>
          \A i \in 1..Len(cyc_log) : cyc_log[i] \notin {"reset", "sleep"}
    /\ pc \notin {"start", "reset"} => nresets = 1 + nrejects
    /\ pc = "reset" => nresets = nrejects

C10_Witness ==
    /\ pc = "read"
    /\ nrejects = 2
    /\ nresets = 3
    /\ npubs >= 1
    /\ cyc_log = <<"read", "deliver", "publish">>

\* C11: data_ is written only by the completion of the worker's read,
\* whatever the constructor, OnMonitor and DataCorrupted callers do in
\* between; the frame about to be published, and the frame published, is
\* the frame DataCorrupted() examined in the same cycle.
C11_OnlyReadWritesData ==
    /\ [][data_' # data_ =>
            /\ pc = "wait" /\ pc' = "check"
            /\ rx_block' # None
            /\ data_' = Unpack(Get(rx_block'))]_vars
    /\ [](pc = "publish" => validated = Some(data_))
    /\ []((pc = "read" /\ validated # None /\ Get(verdict) = FALSE) =>
             (pub_arg = validated /\ pub_arg = Some(data_)))

C11_Witness ==
    /\ pc = "read"
    /\ npubs >= 2
    /\ pub_arg = validated
    /\ pub_arg = Some(data_)
    /\ nmonitor >= 1
    /\ ext_verdict # None
    /\ debug_build

\* the six checks of the validator, numbered in the order of the code
CheckFails(i, d) ==
    CASE i = 1 -> (d.ch_r_x < 364 \/ d.ch_r_x > 1684)
      [] i = 2 -> (d.ch_r_y < 364 \/ d.ch_r_y > 1684)
      [] i = 3 -> (d.ch_l_x < 364 \/ d.ch_l_x > 1684)
      [] i = 4 -> (d.ch_l_y < 364 \/ d.ch_l_y > 1684)
      [] i = 5 -> d.sw_l = 0
      [] i = 6 -> d.sw_r = 0

\* the verdict of the checks taken in the given order, stopping at the
\* first that fails
RECURSIVE ChecksInOrder(_, _, _)
ChecksInOrder(order, d, k) ==
    IF k > 6 THEN FALSE
    ELSE IF CheckFails(order[k], d) THEN TRUE
    ELSE ChecksInOrder(order, d, k + 1)

CheckOrders == Permutations(1..6)

\* frames on which all 720 orders are tried: every pattern of passing and
\* failing checks, each channel failing below and above
OrderCase(d) ==
    /\ \A f \in {"ch_r_x", "ch_r_y", "ch_l_x", "ch_l_y"} :
          d[f] \in {363, 1024, 1685}
    /\ d.sw_l \in {0, 1} /\ d.sw_r \in {0, 1}
    /\ \A f \in {"x", "y", "z", "press_l", "press_r", "key", "res"} : d[f] = 0

\* C12: a call of DataCorrupted changes no field of the frame and no other
\* state of the object, returns a boolean for every frame, returns the same
\* verdict when called again, and that verdict is the one every order of
\* the six checks gives.
C12_ValidatorPure ==
    /\ [][/\ data_' = data_
          /\ UNCHANGED <<loopVars, keyVars, codecVars, sysVars>>
          /\ verdict # None => verdict' = verdict]_vars
    /\ [](verdict # None => Get(verdict) \in BOOLEAN)
    /\ []((verdict # None /\ OrderCase(data_)) =>
             \A order \in CheckOrders :
                 ChecksInOrder(order, data_, 1) = Get(verdict))

C12_Witness ==
    /\ verdict = Some(TRUE)
    /\ OrderCase(data_)
    /\ data_.ch_r_x = 1024
    /\ data_.ch_l_y = 1685
    /\ data_.sw_r = 0
    /\ data_.sw_l = 1

\* C13: a call of OnMonitor, at any point of the loop, changes no state of
\* the module and causes no read, reset, pause or publish.
C13_MonitorNoOp ==
    [][nmonitor' # nmonitor =>
          UNCHANGED <<pc, data_, data_view_, debug_build, rx_block, req_size,
                      sleep_ticks, pub_arg, cyc_log, nreads, nresets,
                      nrejects, npubs, verdict, validated, suspended,
                      ctorVars, ext_verdict, keyVars, codecVars>>]_vars

C13_Witness ==
    /\ nmonitor >= 1
    /\ pc = "sleeping"
    /\ npubs >= 1
    /\ nresets = 2

\* C14 as stated: the worker is suspended only while it waits for the
\* transport to deliver a block.
C14_OnlyReadSuspends ==
    suspended => pc = "wait"

\* C14 amended: the worker is suspended in two places, while it waits for
\* the read and during the pause of 3 units on the recovery path; checking,
\* publishing and resetting do not suspend it.
C14_SuspendedInReadOrPause ==
    /\ suspended <=> pc \in {"wait", "sleeping"}
    /\ pc \in {"start", "read", "check", "publish", "reset", "sleep"} =>
          ~suspended
    /\ pc = "sleeping" => sleep_ticks = 3

C14_Witness ==
    /\ pc = "sleeping"
    /\ suspended
    /\ sleep_ticks = 3
    /\ cyc_log = <<"read", "deliver", "reset", "sleep">>

\* C15: whatever the transport does, the frame the loop validates and
\* publishes is the content of a block delivered by the read of the same
\* cycle, never what an earlier cycle or no initialisation left in data_,
\* and a delivered block is published at most once.
C15_OnlyFreshBlocks ==
    /\ validated # None =>
          (rx_block # None /\ validated = Some(Delivered))
    /\ pc = "publish" => rx_block # None
    /\ npubs <= nreads

\* the codes of a key: alone, with Shift, with Ctrl, with both
CodeOf(k, m) ==
    CASE m = 0 -> KeyCode(k)
      [] m = 1 -> ShiftWith(k)
      [] m = 2 -> CtrlWith(k)
      [] m = 3 -> ShiftCtrlWith(k)

\* the codes computed for key_in so far, by modifier
Computed(m) ==
    CASE m = 0 -> Some(KeyCode(key_in))
      [] m = 1 -> shift_code
      [] m = 2 -> ctrl_code
      [] m = 3 -> shiftctrl_code

\* C16: the code computed for a key (KEY_NUM excluded) with a modifier is
\* the code of no other key/modifier pair, is no SwitchPos code (0..5), and
\* is the exact sum code(key) + m * 26, below 256.
C16_CodesCollisionFree ==
    key_in \in BaseKeys =>
        \A m \in 0..3 :
            Computed(m) # None =>
                LET c == Get(Computed(m)) IN
                /\ \A k2 \in BaseKeys, m2 \in 0..3 :
                      CodeOf(k2, m2) = c => (k2 = key_in /\ m2 = m)
                /\ c \notin 0..5
                /\ c = KeyCode(key_in) + m * 26
                /\ c < 256

C16_Witness ==
    /\ key_in = "KEY_R_RELEASE"
    /\ shift_code = Some(51)
    /\ ctrl_code = Some(77)
    /\ shiftctrl_code = Some(103)

\* C17: the transport is configured (100000 baud, even parity, 8 data bits,
\* 1 stop bit) and the topic "dr16_cmd" exists before the worker thread is
\* created: no reset or read happens on an unconfigured transport and no
\* publish on a topic not yet created.
C17_InitBeforeWorker ==
    /\ thread # None =>
          /\ uart_config = Some(<<100000, "EVEN", 8, 1>>)
          /\ topic = Some("dr16_cmd")
    /\ pc # "start" => thread # None
    /\ (nresets >= 1 \/ nreads >= 1) =>
          uart_config = Some(<<100000, "EVEN", 8, 1>>)
    /\ npubs >= 1 => topic = Some("dr16_cmd")

C17_Witness ==
    /\ ctor_pc = "register"
    /\ ~registered
    /\ npubs >= 1
    /\ nresets >= 2

====
